---- MODULE Spec2Model ----
(***************************************************************************)
(* Model of xbob/learn/libsvm/kernel_machine_cxx.cpp:                      *)
(*   - bob::machine::SVMFile        (sparse text file reader)              *)
(*   - svm_pickle / svm_unpickle    (model <-> byte buffer via temp file)  *)
(*   - bob::machine::SupportVector  (prediction engine and persistence)    *)
(* Real values are modelled by small integers (file values, inputs) and by *)
(* reduced fractions <<n, d>> (normalised values).                         *)
(***************************************************************************)
EXTENDS Integers, Sequences, FiniteSets, TLC

VARIABLES
  \* ---- SVMFile ----
  file,         \* the file on disk: [lines, terminated]
  m_shape,      \* SVMFile::m_shape
  m_n_samples,  \* SVMFile::m_n_samples
  m_file,       \* SVMFile::m_file: [pos, eof, fail] (pos counts lines consumed)
  outLabel,     \* caller's label after the last read()
  outVector,    \* caller's array after the last read()
  result,       \* outcome of the last read(): "none", "true", "false", "ShapeError"
  oob,          \* the last read() wrote outside the caller's array
  pass,         \* (label, vector) pairs returned since the last open/reset
  refPass,      \* pairs returned by the first pass read from open to end-of-stream
  refDone,      \* refPass is complete
  resets,       \* number of reset() calls so far
  \* ---- SupportVector ----
  m_model,       \* SupportVector::m_model: [nr_class, prob, SV]
  m_input_size,  \* SupportVector::m_input_size
  m_input_cache, \* SupportVector::m_input_cache: sequence of svm_node
  m_input_sub,   \* SupportVector::m_input_sub
  m_input_div,   \* SupportVector::m_input_div
  op,            \* the last operation called
  err,           \* its outcome: "ok" or the error it failed with
  solver,        \* the solver primitive it invoked, "none" if none
  arg,           \* the vector it was given (v or input), <<>> if none
  out,           \* the output array it was given: [len, contig]
  \* ---- persistence ----
  container,     \* the HDF5 container: NoContainer or its entries
  saved,         \* the engine state at the last successful save(container)
  tmp_files      \* temporary files present on disk

fileVars == <<file, m_shape, m_n_samples, m_file, outLabel, outVector, result,
              oob, pass, refPass, refDone, resets>>

engineVars == <<m_model, m_input_size, m_input_cache, m_input_sub, m_input_div>>

callVars == <<op, err, solver, arg, out>>

persistVars == <<container, saved, tmp_files>>

vars == <<fileVars, engineVars, callVars, persistVars>>

\* ------------------------------------------------------------------ bounds
MaxLines == 3        \* lines in a file
MaxIndex == 2        \* largest feature index in a file
MaxResets == 2       \* reset() calls in a behaviour

\* ---------------------------------------------------------------- helpers
Max(a, b) == IF a < b THEN b ELSE a

SeqsUpTo(S, n) == UNION { [1..k -> S] : k \in 0..n }

\* ================================================================ SVMFile
\* A line after boost::trim is a token sequence: <<>> for a blank line, else
\* <<label, idx1, val1, idx2, val2, ...>> with strictly increasing indices.
\* The value written for index i is 4+i, so a misplaced value is visible.
Labels == {1, -1}

IndexSets == SUBSET (1..MaxIndex)

RECURSIVE PairsOf(_, _)
PairsOf(S, i) ==
  IF i > MaxIndex THEN <<>>
  ELSE (IF i \in S THEN <<i, 4 + i>> ELSE <<>>) \o PairsOf(S, i + 1)

LineChoices == {<<>>} \cup { <<l>> \o PairsOf(S, 1) : l \in Labels, S \in IndexSets }

\* terminated: the last line ends with a newline character.  An empty file
\* has no line and no newline.
Files ==
  { [lines |-> ls, terminated |-> t] :
      ls \in SeqsUpTo(LineChoices, MaxLines), t \in BOOLEAN } \
  { [lines |-> <<>>, terminated |-> TRUE] }

good(s) == ~s.eof /\ ~s.fail

\* std::getline followed by boost::trim, on a stream that is good():
\* the next line is extracted; reaching the end of the file before a newline
\* sets eofbit; extracting nothing sets eofbit and failbit.
getline(f, s) ==
  IF s.pos < Len(f.lines)
  THEN [line |-> f.lines[s.pos + 1],
        s    |-> [pos  |-> s.pos + 1,
                  eof  |-> (s.pos + 1 = Len(f.lines)) /\ ~f.terminated,
                  fail |-> FALSE]]
  ELSE [line |-> <<>>, s |-> [pos |-> s.pos, eof |-> TRUE, fail |-> TRUE]]

\* "gets the next non-empty line": while (!line.size()) { if (!good) break; getline; trim }
RECURSIVE NextLine(_, _)
NextLine(f, s) ==
  IF ~good(s) THEN [line |-> <<>>, s |-> s]
  ELSE LET r == getline(f, s)
       IN IF r.line # <<>> THEN r ELSE NextLine(f, r.s)

\* n_values = count_if(line, is_colon); then n_values extractions of
\* pos >> separator >> value, each raising m_shape to pos.
RECURSIVE ScanLine(_, _, _, _)
ScanLine(line, k, n_values, shape) ==
  IF k >= n_values THEN shape
  ELSE ScanLine(line, k + 1, n_values, Max(shape, line[2 * k + 2]))

\* The constructor's scanning loop: while (m_file.good()) { next non-empty
\* line; if (!m_file.good()) break; parse; ++m_n_samples }.
RECURSIVE Scan(_, _, _, _)
Scan(f, s, shape, n) ==
  IF ~good(s) THEN [shape |-> shape, n |-> n]
  ELSE LET r == NextLine(f, s)
       IN IF ~good(r.s) THEN [shape |-> shape, n |-> n]
          ELSE Scan(f, r.s,
                    ScanLine(r.line, 0, (Len(r.line) - 1) \div 2, shape), n + 1)

\* m_file.clear(); m_file.seekg(0): also what a successful open() leaves.
Rewound == [pos |-> 0, eof |-> FALSE, fail |-> FALSE]

SVMFile(f) == Scan(f, Rewound, 0, 0)

\* Values an uninitialised local (int pos, double value) may hold.
GarbagePos == 0..(MaxIndex + 1)
GarbageValue == {0, 9}

\* What the caller's array holds before read(): anything but the answer.
Stale == 8

\* values(pos-1) = value on an array of Len(values) elements without bounds checks.
Store(st, pos, value) ==
  IF pos \in 1..Len(st.values)
  THEN [st EXCEPT !.values = [st.values EXCEPT ![pos] = value]]
  ELSE [st EXCEPT !.oob = TRUE]

\* for (k=0; k<m_shape; ++k) { iss >> pos >> separator >> value; values(pos-1) = value; }
\* toks: what is left of the line.  Once the line is exhausted the stream is
\* at eof, the extraction's sentry fails, and pos and value keep what they held.
RECURSIVE ReadLoop(_, _, _, _, _, _)
ReadLoop(k, shape, toks, pos, value, st) ==
  IF k >= shape THEN st
  ELSE IF Len(toks) >= 2
       THEN ReadLoop(k + 1, shape, SubSeq(toks, 3, Len(toks)), toks[1], toks[2],
                     Store(st, toks[1], toks[2]))
       ELSE ReadLoop(k + 1, shape, toks, pos, value, Store(st, pos, value))

\* SVMFile::read_ on a caller's array of n elements; gpos, gvalue: what the
\* uninitialised locals pos and value hold on entry.
read_(n, gpos, gvalue) ==
  LET before == [i \in 1..n |-> Stale]
      r == NextLine(file, m_file)
  IN IF ~good(m_file) \/ r.line = <<>>
     THEN /\ m_file' = r.s
          /\ result' = "false"
          /\ oob' = FALSE
          /\ outVector' = before
          /\ refDone' = (refDone \/ resets = 0)
          /\ refPass' = IF ~refDone /\ resets = 0 THEN pass ELSE refPass
          /\ UNCHANGED <<outLabel, pass>>
     ELSE LET st == ReadLoop(0, m_shape, Tail(r.line), gpos, gvalue,
                             [values |-> [i \in 1..n |-> 0], oob |-> FALSE])
          IN /\ m_file' = r.s
             /\ result' = "true"
             /\ outLabel' = r.line[1]
             /\ outVector' = st.values
             /\ oob' = st.oob
             /\ pass' = Append(pass, <<r.line[1], st.values>>)
             /\ UNCHANGED <<refPass, refDone>>

\* SVMFile::read: the array must have exactly m_shape elements.
read(n) ==
  /\ IF n # m_shape
     THEN /\ result' = "ShapeError"
          /\ outVector' = [i \in 1..n |-> Stale]
          /\ oob' = FALSE
          /\ UNCHANGED <<m_file, outLabel, pass, refPass, refDone>>
     ELSE \E gpos \in GarbagePos, gvalue \in GarbageValue : read_(n, gpos, gvalue)
  /\ UNCHANGED <<file, m_shape, m_n_samples, resets>>
  /\ UNCHANGED <<engineVars, callVars, persistVars>>

\* SVMFile::reset: m_file.close(); m_file.open(m_filename): a successful
\* open() clears the state flags and starts at the beginning.
reset ==
  /\ resets < MaxResets
  /\ m_file' = Rewound
  /\ pass' = <<>>
  /\ resets' = resets + 1
  /\ result' = "none"
  /\ UNCHANGED <<file, m_shape, m_n_samples, outLabel, outVector, oob, refPass, refDone>>
  /\ UNCHANGED <<engineVars, callVars, persistVars>>

\* No SupportVector object, no container, no temporary file.
NoEngine ==
  /\ m_model = <<>>
  /\ m_input_size = 0
  /\ m_input_cache = <<>>
  /\ m_input_sub = <<>>
  /\ m_input_div = <<>>
  /\ op = "none"
  /\ err = "ok"
  /\ solver = "none"
  /\ arg = <<>>
  /\ out = [len |-> 0, contig |-> TRUE]
  /\ container = <<>>
  /\ saved = <<>>
  /\ tmp_files = {}

InitFile ==
  /\ NoEngine
  /\ file \in Files
  /\ m_shape = SVMFile(file).shape
  /\ m_n_samples = SVMFile(file).n
  /\ m_file = Rewound
  /\ outLabel = 0
  /\ outVector = <<>>
  /\ result = "none"
  /\ oob = FALSE
  /\ pass = <<>>
  /\ refPass = <<>>
  /\ refDone = FALSE
  /\ resets = 0

NextFile ==
  \/ \E n \in 0..MaxIndex : read(n)
  \/ reset

SpecFile == InitFile /\ [][NextFile]_vars

\* ---- what the file holds, for the claims ----
Records(f) == SelectSeq(f.lines, LAMBDA l : l # <<>>)

RECURSIVE LineMaxIndex(_)
LineMaxIndex(toks) ==
  IF Len(toks) < 2 THEN 0
  ELSE Max(toks[1], LineMaxIndex(SubSeq(toks, 3, Len(toks))))

RECURSIVE FileMaxIndex(_)
FileMaxIndex(ls) ==
  IF ls = <<>> THEN 0
  ELSE Max(IF Head(ls) = <<>> THEN 0 ELSE LineMaxIndex(Tail(Head(ls))),
           FileMaxIndex(Tail(ls)))

\* The dense vector of a record: value at index-1 for each pair, 0 elsewhere.
Dense(rec, n) ==
  [i \in 1..n |->
     IF \E j \in 1..((Len(rec) - 1) \div 2) : rec[2 * j] = i
     THEN rec[1 + 2 * (CHOOSE j \in 1..((Len(rec) - 1) \div 2) : rec[2 * j] = i)]
     ELSE 0]

\* C1: after open, shape is the maximum feature index over all lines and
\* sampleCount is the number of non-empty lines, for every valid file (with
\* or without a newline after the last line).
C1_ShapeAndCount ==
  /\ m_shape = FileMaxIndex(file.lines)
  /\ m_n_samples = Len(Records(file))

\* C2: every read() on an array of shape elements that returns true yields
\* the next record in order (label, dense vector, zero elsewhere) with no
\* write outside the array, and read() returns false exactly once
\* sampleCount records have been returned.  Stated for the files that end
\* with a newline, which the constructor counts in full.
C2_ReadContract ==
  file.terminated =>
  /\ result = "true" =>
       /\ Len(pass) <= m_n_samples
       /\ outLabel = Records(file)[Len(pass)][1]
       /\ outVector = Dense(Records(file)[Len(pass)], m_shape)
       /\ ~oob
  /\ result = "false" => Len(pass) = m_n_samples

\* C3: a pass read to end-of-stream after reset() returns exactly the
\* sequence of (label, vector) pairs that the pass read from the freshly
\* opened file returned.
C3_ResetReproduces ==
  (result = "false" /\ resets > 0 /\ refDone) => pass = refPass

\* ========================================================= SupportVector
MaxLen == 2          \* length of the vectors a caller passes
MaxTmp == 1          \* temporary files that may pile up on disk

Abs(a) == IF a < 0 THEN -a ELSE a

RECURSIVE Gcd(_, _)
Gcd(a, b) == IF b = 0 THEN a ELSE Gcd(b, a % b)

\* The double n/d as a reduced fraction <<n, d>>; d = 0 stands for what
\* IEEE division by zero gives: <<1,0>> +Inf, <<-1,0>> -Inf, <<0,0>> NaN.
Frac(n, d) ==
  IF d = 0 THEN <<(IF n > 0 THEN 1 ELSE IF n < 0 THEN -1 ELSE 0), 0>>
  ELSE LET g == Gcd(Abs(n), Abs(d))
           sgn == IF d < 0 THEN -1 ELSE 1
       IN <<(sgn * n) \div g, Abs(d) \div g>>

\* if (!tmp): true of 0.0 only (NaN and the infinities are not zero).
IsZero(x) == x[1] = 0 /\ x[2] # 0

\* Vectors a caller passes: for each length, the three rotations of 1,2,0.
Vec(n, p) == [i \in 1..n |-> (p + i) % 3]

Vectors == { Vec(n, p) : n \in 0..MaxLen, p \in 0..2 }

\* An output array: its extent and whether it is C-contiguous.
OutBuffers ==
  { [len |-> n, contig |-> TRUE] : n \in {1, 3, 6} } \cup
  { [len |-> n, contig |-> FALSE] : n \in {1, 3} }

\* The inputs of the predictions that fill an output array: one per length.
Inputs == { Vec(n, 2) : n \in 0..MaxLen }

\* What `out` holds for an operation that takes no output array.
NoOut == [len |-> 0, contig |-> TRUE]

\* ---- svm_model: what the engine reads of it ----
\* SV[k] is the k-th support vector's node indices, ended by -1; nr_class is
\* svm_get_nr_class; prob is svm_check_probability_model.
Null == [valid |-> FALSE, nr_class |-> 0, prob |-> FALSE, SV |-> <<>>]

SVChoices == { <<>>, <<<<1, -1>>, <<-1>>>>, <<<<2, -1>>, <<1, 2, -1>>>> }

AllModels ==
  { [valid |-> TRUE, nr_class |-> c, prob |-> p, SV |-> sv] :
      c \in {2, 3, 4}, p \in BOOLEAN, sv \in SVChoices }

\* The models the engine specification starts from: binary, 3-class and
\* 4-class, with and without probability information, input sizes 0, 1, 2.
Models ==
  { m \in AllModels :
      \/ m.nr_class = 2 /\ m.prob /\ m.SV = <<<<1, -1>>, <<-1>>>>
      \/ m.nr_class = 2 /\ ~m.prob /\ m.SV = <<>>
      \/ m.nr_class = 3 /\ ~m.prob /\ m.SV = <<<<2, -1>>, <<1, 2, -1>>>>
      \/ m.nr_class = 4 /\ m.prob /\ m.SV = <<<<1, -1>>, <<-1>>>> }

\* A cache slot operator new[] returned and nothing wrote yet.
Unwritten == [index |-> 0, value |-> <<0, 1>>]

\* while (end->index != -1) { if (end->index > m_input_size) m_input_size = end->index; ++end; }
RECURSIVE ResetRow(_, _, _)
ResetRow(row, j, size) ==
  IF row[j] = -1 THEN size
  ELSE ResetRow(row, j + 1, IF row[j] > size THEN row[j] ELSE size)

\* for (int k=0; k<m_model->l; ++k) over the support vectors.
RECURSIVE ResetScan(_, _, _)
ResetScan(SV, k, size) ==
  IF k >= Len(SV) THEN size
  ELSE ResetScan(SV, k + 1, ResetRow(SV[k + 1], 1, size))

\* reset() with a cache of size nodes: no slot for the closing index -1.
SupportVector_resetNoEndSlot(model) ==
  LET size == ResetScan(model.SV, 0, 0)
  IN [input_size |-> size,
      cache |-> [i \in 1..size |-> Unwritten],
      sub   |-> [i \in 1..size |-> 0],
      div   |-> [i \in 1..size |-> 1]]

\* SupportVector::reset(): the input size, a fresh cache of 1 + size nodes,
\* m_input_sub = 0.0 and m_input_div = 1.0 resized to the input size.
SupportVector_reset(model) ==
  LET size == ResetScan(model.SV, 0, 0)
  IN [input_size |-> size,
      cache |-> [i \in 1..(1 + size) |-> Unwritten],
      sub   |-> [i \in 1..size |-> 0],
      div   |-> [i \in 1..size |-> 1]]

supportsProbability(model) == model.prob

numberOfClasses(model) == model.nr_class

outputSize(model) == IF model.nr_class = 2 THEN 1 ELSE model.nr_class

\* The engine built from a model handle (constructors from a path or a handle).
Engine(model) ==
  LET r == SupportVector_reset(model)
  IN /\ m_model' = model
     /\ m_input_size' = r.input_size
     /\ m_input_cache' = r.cache
     /\ m_input_sub' = r.sub
     /\ m_input_div' = r.div

\* SupportVector(model_file) / SupportVector(shared_ptr<svm_model>): a null
\* handle throws and builds nothing.
SupportVector(h) ==
  /\ op' = "SupportVector"
  /\ solver' = "none"
  /\ arg' = <<>>
  /\ out' = NoOut
  /\ IF ~h.valid
     THEN err' = "InvalidModelError" /\ UNCHANGED engineVars
     ELSE err' = "ok" /\ Engine(h)
  /\ UNCHANGED <<fileVars, persistVars>>

\* The check with >= for >: a vector of exactly inputSize entries is refused.
TooShortOrEqual(size, v) == size >= Len(v)

\* if (inputSize() > (size_t)v.extent(0)) throw
TooShort(size, v) == size > Len(v)

\* bob::core::array::ccopy: a fresh array holding v's elements.
ccopy(v) == [i \in 1..Len(v) |-> v[i]]

setInputSubtraction(v) ==
  /\ op' = "setInputSubtraction"
  /\ solver' = "none"
  /\ arg' = v
  /\ out' = NoOut
  /\ IF TooShort(m_input_size, v)
     THEN err' = "DimensionError" /\ UNCHANGED engineVars
     ELSE /\ err' = "ok"
          /\ m_input_sub' = ccopy(v)
          /\ UNCHANGED <<m_model, m_input_size, m_input_cache, m_input_div>>
  /\ UNCHANGED <<fileVars, persistVars>>

setInputDivision(v) ==
  /\ op' = "setInputDivision"
  /\ solver' = "none"
  /\ arg' = v
  /\ out' = NoOut
  /\ IF TooShort(m_input_size, v)
     THEN err' = "DimensionError" /\ UNCHANGED engineVars
     ELSE /\ err' = "ok"
          /\ m_input_div' = ccopy(v)
          /\ UNCHANGED <<m_model, m_input_size, m_input_cache, m_input_sub>>
  /\ UNCHANGED <<fileVars, persistVars>>

\* The loop of copy(): k counts features from 0, cur is the next free slot.
\*   double tmp = (input(k) - sub(k))/div(k); if (!tmp) continue;
\*   cache[cur].index = k+1; cache[cur].value = tmp; ++cur;
\* and after the loop cache[cur].index = -1.
RECURSIVE copyLoop(_, _, _, _, _, _, _)
copyLoop(k, cur, input, cache_size, cache, sub, div) ==
  IF k >= cache_size
  THEN [cache EXCEPT ![cur + 1].index = -1]
  ELSE LET tmp == Frac(input[k + 1] - sub[k + 1], div[k + 1])
       IN IF IsZero(tmp)
          THEN copyLoop(k + 1, cur, input, cache_size, cache, sub, div)
          ELSE copyLoop(k + 1, cur + 1, input, cache_size,
                        [cache EXCEPT ![cur + 1] = [index |-> k + 1, value |-> tmp]],
                        sub, div)

\* copy() without "if (!tmp) continue": zero values are written as nodes.
RECURSIVE copyKeepZerosLoop(_, _, _, _, _, _)
copyKeepZerosLoop(k, input, cache_size, cache, sub, div) ==
  IF k >= cache_size
  THEN [cache EXCEPT ![k + 1].index = -1]
  ELSE copyKeepZerosLoop(k + 1, input, cache_size,
         [cache EXCEPT ![k + 1] =
            [index |-> k + 1,
             value |-> Frac(input[k + 1] - sub[k + 1], div[k + 1])]],
         sub, div)

copyKeepZeros(input, cache_size, cache, sub, div) ==
  copyKeepZerosLoop(0, input, cache_size, cache, sub, div)

copy(input, cache_size, cache, sub, div) ==
  copyLoop(0, 0, input, cache_size, cache, sub, div)

\* The part of a prediction after validation: encode, then call the solver.
Predict(input, fn) ==
  /\ m_input_cache' = copy(input, m_input_size, m_input_cache, m_input_sub, m_input_div)
  /\ solver' = fn
  /\ err' = "ok"

Rejected(e) ==
  /\ err' = e
  /\ solver' = "none"
  /\ UNCHANGED m_input_cache

predictClass(input) ==
  /\ op' = "predictClass"
  /\ arg' = input
  /\ out' = NoOut
  /\ IF Len(input) < m_input_size
     THEN Rejected("DimensionError")
     ELSE Predict(input, "svm_predict")
  /\ UNCHANGED <<m_model, m_input_size, m_input_sub, m_input_div>>
  /\ UNCHANGED <<fileVars, persistVars>>

\* One score per class instead of one per pair of classes.
ScoresSizePerClass(model) == outputSize(model)

\* size_t N = outputSize(); size_t size = N < 2 ? 1 : (N*(N-1))/2;
ScoresSize(model) ==
  LET N == outputSize(model)
  IN IF N < 2 THEN 1 ELSE (N * (N - 1)) \div 2

\* The checks of predictClassAndScores, in order: "ok" or the error thrown.
ScoresCheck(model, size, input, scores) ==
  IF Len(input) < size THEN "DimensionError"
  ELSE IF ~scores.contig THEN "ContiguityError"
  ELSE IF scores.len # ScoresSize(model) THEN "DimensionError"
  ELSE "ok"

predictClassAndScores(input, scores) ==
  /\ op' = "predictClassAndScores"
  /\ arg' = input
  /\ out' = scores
  /\ LET e == ScoresCheck(m_model, m_input_size, input, scores)
     IN IF e # "ok" THEN Rejected(e) ELSE Predict(input, "svm_predict_values")
  /\ UNCHANGED <<m_model, m_input_size, m_input_sub, m_input_div>>
  /\ UNCHANGED <<fileVars, persistVars>>

\* The checks with the capability test last.
ProbabilitiesCheckLate(model, size, input, probabilities) ==
  IF Len(input) < size THEN "DimensionError"
  ELSE IF ~probabilities.contig THEN "ContiguityError"
  ELSE IF probabilities.len # outputSize(model) THEN "DimensionError"
  ELSE IF ~supportsProbability(model) THEN "UnsupportedError"
  ELSE "ok"

\* The checks of predictClassAndProbabilities, in order.
ProbabilitiesCheck(model, size, input, probabilities) ==
  IF Len(input) < size THEN "DimensionError"
  ELSE IF ~supportsProbability(model) THEN "UnsupportedError"
  ELSE IF ~probabilities.contig THEN "ContiguityError"
  ELSE IF probabilities.len # outputSize(model) THEN "DimensionError"
  ELSE "ok"

predictClassAndProbabilities(input, probabilities) ==
  /\ op' = "predictClassAndProbabilities"
  /\ arg' = input
  /\ out' = probabilities
  /\ LET e == ProbabilitiesCheck(m_model, m_input_size, input, probabilities)
     IN IF e # "ok" THEN Rejected(e) ELSE Predict(input, "svm_predict_probability")
  /\ UNCHANGED <<m_model, m_input_size, m_input_sub, m_input_div>>
  /\ UNCHANGED <<fileVars, persistVars>>

\* No SVMFile is open.
NoFile ==
  /\ file = [lines |-> <<>>, terminated |-> FALSE]
  /\ m_shape = 0
  /\ m_n_samples = 0
  /\ m_file = Rewound
  /\ outLabel = 0
  /\ outVector = <<>>
  /\ result = "none"
  /\ oob = FALSE
  /\ pass = <<>>
  /\ refPass = <<>>
  /\ refDone = FALSE
  /\ resets = 0

\* The state after SupportVector(model) for a model of `models`.
InitEngine(models) ==
  /\ NoFile
  /\ m_model \in models
  /\ m_input_size = SupportVector_reset(m_model).input_size
  /\ m_input_cache = SupportVector_reset(m_model).cache
  /\ m_input_sub = SupportVector_reset(m_model).sub
  /\ m_input_div = SupportVector_reset(m_model).div
  /\ op = "SupportVector"
  /\ err = "ok"
  /\ solver = "none"
  /\ arg = <<>>
  /\ out = NoOut
  /\ container = <<>>
  /\ saved = <<>>
  /\ tmp_files = {}

Init == InitEngine(Models)

Next ==
  \/ \E v \in Vectors : setInputSubtraction(v)
  \/ \E v \in Vectors : setInputDivision(v)
  \/ \E input \in Vectors : predictClass(input)
  \/ \E input \in Inputs, scores \in OutBuffers : predictClassAndScores(input, scores)
  \/ \E input \in Inputs, probabilities \in OutBuffers :
       predictClassAndProbabilities(input, probabilities)

Spec == Init /\ [][Next]_vars

\* ============================================================ persistence
\* ---- the solver's model file ----
\* A token that ends a support vector's line in the model file.
EndOfLine == -2

RECURSIVE SaveRow(_, _)
SaveRow(row, j) ==
  IF row[j] = -1 THEN <<EndOfLine>> ELSE <<row[j]>> \o SaveRow(row, j + 1)

RECURSIVE SaveRows(_, _)
SaveRows(SV, k) ==
  IF k > Len(SV) THEN <<>> ELSE SaveRow(SV[k], 1) \o SaveRows(SV, k + 1)

\* svm_save_model: the header (nr_class, probability information, total_sv)
\* and one line per support vector with its nodes.
svm_save_model(model) ==
  <<model.nr_class, (IF model.prob THEN 1 ELSE 0), Len(model.SV)>>
    \o SaveRows(model.SV, 1)

\* One support vector line read back: its nodes, then the closing index -1.
RECURSIVE LoadRow(_, _)
LoadRow(bytes, j) ==
  IF bytes[j] = EndOfLine THEN [row |-> <<-1>>, next |-> j + 1]
  ELSE LET r == LoadRow(bytes, j + 1)
       IN [row |-> <<bytes[j]>> \o r.row, next |-> r.next]

RECURSIVE LoadRows(_, _, _)
LoadRows(bytes, j, l) ==
  IF l = 0 THEN <<>>
  ELSE LET r == LoadRow(bytes, j)
       IN <<r.row>> \o LoadRows(bytes, r.next, l - 1)

\* svm_load_model (through make_model): a null handle when the file does
\* not start with a model header.
svm_load_model(bytes) ==
  IF Len(bytes) < 3 THEN Null
  ELSE [valid |-> TRUE, nr_class |-> bytes[1], prob |-> (bytes[2] = 1),
        SV |-> LoadRows(bytes, 4, bytes[3])]

\* bob::core::tmpfile: a name no file on disk has.
tmpfile(files) == CHOOSE n \in 0..Cardinality(files) : n \notin files

\* svm_pickle; save_ok: svm_save_model returned 0; files: the temporary
\* files on disk.  A failed save throws before the file is removed.
svm_pickle(model, save_ok, files) ==
  LET tmp_filename == tmpfile(files)
  IN IF ~save_ok
     THEN [err |-> "IOError", buffer |-> <<>>, files |-> files \cup {tmp_filename}]
     ELSE [err |-> "ok", buffer |-> svm_save_model(model),
           files |-> (files \cup {tmp_filename}) \ {tmp_filename}]

\* svm_unpickle: a null handle throws before the file is removed.
svm_unpickle(buffer, files) ==
  LET tmp_filename == tmpfile(files)
      retval == svm_load_model(buffer)
  IN IF ~retval.valid
     THEN [err |-> "FormatError", model |-> Null, files |-> files \cup {tmp_filename}]
     ELSE [err |-> "ok", model |-> retval,
           files |-> (files \cup {tmp_filename}) \ {tmp_filename}]

\* SupportVector::save(HDF5File&): svm_model, input_subtract, input_divide
\* (the version attribute only feeds a warning on load and is left out).
save(save_ok) ==
  /\ save_ok \/ Cardinality(tmp_files) < MaxTmp
  /\ op' = "save"
  /\ solver' = "none"
  /\ arg' = <<>>
  /\ out' = NoOut
  /\ LET r == svm_pickle(m_model, save_ok, tmp_files)
     IN /\ err' = r.err
        /\ tmp_files' = r.files
        /\ IF r.err # "ok"
           THEN UNCHANGED <<container, saved>>
           ELSE /\ container' = [svm_model |-> r.buffer,
                                 input_subtract |-> m_input_sub,
                                 input_divide |-> m_input_div]
                /\ saved' = [model |-> m_model, input_size |-> m_input_size,
                             sub |-> m_input_sub, div |-> m_input_div]
  /\ UNCHANGED <<fileVars, engineVars>>

\* The arrays read first and reset() called last: reset() clobbers them.
LoadEngineResetLast(model, config) == SupportVector_reset(model)

\* SupportVector(HDF5File&) after svm_unpickle: reset(), then readArray of
\* input_subtract and input_divide into m_input_sub and m_input_div.
LoadEngine(model, config) ==
  LET r == SupportVector_reset(model)
  IN [r EXCEPT !.sub = config.input_subtract, !.div = config.input_divide]

\* SupportVector(HDF5File&) on a container save() wrote.
load ==
  /\ container # <<>>
  /\ op' = "load"
  /\ solver' = "none"
  /\ arg' = <<>>
  /\ out' = NoOut
  /\ LET r == svm_unpickle(container.svm_model, tmp_files)
     IN /\ err' = r.err
        /\ tmp_files' = r.files
        /\ IF r.err # "ok"
           THEN UNCHANGED engineVars
           ELSE LET e == LoadEngine(r.model, container)
                IN /\ m_model' = r.model
                   /\ m_input_size' = e.input_size
                   /\ m_input_cache' = e.cache
                   /\ m_input_sub' = e.sub
                   /\ m_input_div' = e.div
  /\ UNCHANGED <<fileVars, container, saved>>

\* svm_unpickle called on a caller's buffer.
unpickle(buffer) ==
  /\ svm_load_model(buffer).valid \/ Cardinality(tmp_files) < MaxTmp
  /\ op' = "svm_unpickle"
  /\ solver' = "none"
  /\ arg' = <<>>
  /\ out' = NoOut
  /\ err' = svm_unpickle(buffer, tmp_files).err
  /\ tmp_files' = svm_unpickle(buffer, tmp_files).files
  /\ UNCHANGED <<fileVars, engineVars, container, saved>>

\* The smaller input sets of the persistence specification.
PersistModels == { m \in AllModels : m.prob /\ m.nr_class = 2 }

PersistVectors == { Vec(n, 1) : n \in 0..MaxLen }

PersistBuffers == { [len |-> 1, contig |-> TRUE], [len |-> 3, contig |-> TRUE] }

Buffers == { svm_save_model(m) : m \in PersistModels } \cup { <<>>, <<0>> }

InitPersist == InitEngine(PersistModels)

NextPersist ==
  \/ \E h \in PersistModels \cup {Null} : SupportVector(h)
  \/ \E v \in PersistVectors : setInputSubtraction(v)
  \/ \E v \in PersistVectors : setInputDivision(v)
  \/ \E input \in PersistVectors : predictClass(input)
  \/ \E input \in PersistVectors, scores \in PersistBuffers :
       predictClassAndScores(input, scores)
  \/ \E input \in PersistVectors, probabilities \in PersistBuffers :
       predictClassAndProbabilities(input, probabilities)
  \/ \E save_ok \in BOOLEAN : save(save_ok)
  \/ load
  \/ \E buffer \in Buffers : unpickle(buffer)

SpecPersist == InitPersist /\ [][NextPersist]_vars

\* ================================================================= claims
Zeros(n) == [i \in 1..n |-> 0]

Ones(n) == [i \in 1..n |-> 1]

\* C4: after load() of a container, subtract and divide are the vectors the
\* saved engine had (not the identity defaults reset() installs) and
\* inputSize is the saved engine's.
C4_LoadRestoresNormalization ==
  (op = "load" /\ err = "ok") =>
    /\ m_input_sub = saved.sub
    /\ m_input_div = saved.div
    /\ m_input_size = saved.input_size

C4_Witness ==
  /\ op = "load" /\ err = "ok"
  /\ m_input_size = 2
  /\ m_input_sub # Zeros(2)
  /\ m_input_div # Ones(2)

\* C5 as stated: whenever supportsProbability() is false,
\* predictClassAndProbabilities fails with UnsupportedError, for every input.
C5_AlwaysUnsupported ==
  (op = "predictClassAndProbabilities" /\ ~supportsProbability(m_model)) =>
    (err = "UnsupportedError" /\ solver = "none")

\* C5 (amended): whenever supportsProbability() is false,
\* predictClassAndProbabilities fails without invoking the solver and without
\* writing the scratch buffer; the error is UnsupportedError when the input
\* has at least inputSize entries and DimensionError when it is shorter.
C5_FailsWithoutSolver ==
  [][(op' = "predictClassAndProbabilities" /\ ~supportsProbability(m_model')) =>
       /\ err' = (IF Len(arg') >= m_input_size'
                  THEN "UnsupportedError" ELSE "DimensionError")
       /\ solver' = "none"
       /\ m_input_cache' = m_input_cache]_vars

C5_Witness ==
  /\ op = "predictClassAndProbabilities"
  /\ ~supportsProbability(m_model)
  /\ err = "UnsupportedError"
  /\ \E i \in 1..Len(m_input_cache) : m_input_cache[i].index = -1

\* C6: with an input of at least inputSize entries and a contiguous
\* outScores, predictClassAndScores is accepted exactly when outScores has
\* (C < 2 ? 1 : C*(C-1)/2) entries, C = outputSize(), and fails with
\* DimensionError without calling the solver otherwise; a binary model needs
\* 1 entry and a 3-class model 3.
C6_ScoresLength ==
  (op = "predictClassAndScores" /\ Len(arg) >= m_input_size /\ out.contig) =>
    LET C == outputSize(m_model)
        need == IF C < 2 THEN 1 ELSE (C * (C - 1)) \div 2
    IN /\ (err = "ok") <=> (out.len = need)
       /\ out.len = need => solver = "svm_predict_values"
       /\ out.len # need => (err = "DimensionError" /\ solver = "none")
       /\ numberOfClasses(m_model) = 2 => (C = 1 /\ need = 1)
       /\ numberOfClasses(m_model) = 3 => need = 3

C6_Witness ==
  /\ op = "predictClassAndScores"
  /\ err = "ok"
  /\ numberOfClasses(m_model) = 4
  /\ out.len = 6

\* C7: setInputSubtraction(v) and setInputDivision(v) fail with
\* DimensionError exactly when v is shorter than inputSize; a failed call
\* changes nothing of the engine, a successful one replaces the targeted
\* vector by v and leaves the other vector, inputSize and the model as
\* they were.
C7_Setters ==
  [][/\ op' = "setInputSubtraction" =>
          IF Len(arg') < m_input_size
          THEN err' = "DimensionError" /\ UNCHANGED engineVars
          ELSE /\ err' = "ok"
               /\ m_input_sub' = arg'
               /\ UNCHANGED <<m_input_div, m_input_size, m_model, m_input_cache>>
     /\ op' = "setInputDivision" =>
          IF Len(arg') < m_input_size
          THEN err' = "DimensionError" /\ UNCHANGED engineVars
          ELSE /\ err' = "ok"
               /\ m_input_div' = arg'
               /\ UNCHANGED <<m_input_sub, m_input_size, m_model, m_input_cache>>]_vars

C7_Witness ==
  /\ op = "setInputDivision"
  /\ err = "ok"
  /\ m_input_size = 2
  /\ Len(m_input_div) = m_input_size
  /\ m_input_sub # Zeros(2)

MaxOf(S) == IF S = {} THEN 0 ELSE CHOOSE x \in S : \A y \in S : y <= x

\* C8: in every reachable state of an engine, inputSize is the largest
\* feature index over the model's support vectors, the scratch buffer has
\* inputSize+1 slots, subtract and divide have at least inputSize entries;
\* right after construction from a path or handle subtract is all-zero and
\* divide all-one, of exactly inputSize entries.
C8_EngineInvariant ==
  /\ m_input_size =
       MaxOf(UNION { { m_model.SV[k][j] : j \in 1..Len(m_model.SV[k]) } \ {-1} :
                     k \in 1..Len(m_model.SV) })
  /\ Len(m_input_cache) = m_input_size + 1
  /\ Len(m_input_sub) >= m_input_size
  /\ Len(m_input_div) >= m_input_size
  /\ (op = "SupportVector" /\ err = "ok") =>
       (m_input_sub = Zeros(m_input_size) /\ m_input_div = Ones(m_input_size))

C8_Witness ==
  /\ op = "load" /\ err = "ok"
  /\ m_input_size = 1
  /\ Len(m_input_sub) > m_input_size
  /\ m_input_div # Ones(m_input_size)

\* The encoding C9 expects: for k in [0, inputSize) in increasing order, the
\* node {k+1, (input[k]-subtract[k])/divide[k]} unless that value is zero.
ExpectedNodes(input, size, sub, div) ==
  SelectSeq([k \in 1..size |->
               [index |-> k, value |-> Frac(input[k] - sub[k], div[k])]],
            LAMBDA node : ~IsZero(node.value))

\* C9: an accepted prediction call leaves in scratch exactly the expected
\* nodes followed by one node of index -1, within inputSize+1 slots, computed
\* from the first inputSize entries of input, subtract and divide alone.
C9_SparseEncoding ==
  (op \in {"predictClass", "predictClassAndScores", "predictClassAndProbabilities"}
     /\ err = "ok") =>
    LET nodes == ExpectedNodes(arg, m_input_size, m_input_sub, m_input_div)
        n == Len(nodes)
    IN /\ n + 1 <= m_input_size + 1
       /\ Len(m_input_cache) = m_input_size + 1
       /\ SubSeq(m_input_cache, 1, n) = nodes
       /\ m_input_cache[n + 1].index = -1

C9_Witness ==
  /\ op = "predictClass" /\ err = "ok"
  /\ m_input_size = 2
  /\ Len(arg) = 2
  /\ m_input_cache[1] = [index |-> 2, value |-> <<1, 2>>]
  /\ m_input_cache[2].index = -1
  /\ m_input_cache[3].index = -1

\* C10: no temporary file is left on disk when svm_pickle or svm_unpickle
\* ends, whether it returned or threw.
C10_NoTempFileLeft == tmp_files = {}

\* C11: whenever predictClassAndProbabilities passes its checks and invokes
\* svm_predict_probability, the output array it accepted has at least
\* numberOfClasses() entries, one per probability the solver writes; this
\* includes binary models, where outputSize() is 1 and numberOfClasses() is 2.
C11_ProbabilitiesBufferHoldsAllClasses ==
  (op = "predictClassAndProbabilities" /\ solver = "svm_predict_probability") =>
    out.len >= numberOfClasses(m_model)

====
